---- MODULE Spec2Model ----
(***************************************************************************)
(* Model of subs-grab: the attribute match metric and filename matcher of  *)
(* filename_matcher.py, the per-file acquisition of                        *)
(* SubtitlesGrabber.grab_subtitles_for_file and the batch loop of          *)
(* grab_subtitles (subs_grabber.py).                                       *)
(*                                                                         *)
(* Scores are kept in quarters of a point (5 -> 20, 1.5 -> 6, 0.5 -> 2,    *)
(* 0.25 -> 1), so that every float the metric can produce is an integer.   *)
(* Indices returned by the matcher are Python's (0-based).                 *)
(***************************************************************************)
EXTENDS Integers, Sequences, FiniteSets, TLC

\* ------------------------------------------------------------ bounds
NumAssets == 2
MaxQuota == 1
MaxResults == 3
MaxCands == 3

VARIABLES
    \* --- SubtitlesGrabber configuration and its collaborators
    languages,            \* self.languages: priority-ordered list of codes
    get_all_langs,        \* self._get_all_langs
    remaining_downloads,  \* what open_subtitles.remaining_downloads evaluates to
    fs,                   \* fs[a]: languages with a local {base}.{lang}.srt
    nfo_has_imdbid,       \* nfo_has_imdbid[a]: the nfo holds an <imdbid> field
    has_media,            \* has_media[a]: a media file shares the nfo's base name
    \* --- grab_subtitles (batch loop)
    pc,                   \* "loop" | "download" | "done"
    i,                    \* position in nfo_files (1-based)
    results,              \* results[status]: list of nfo files
    stop_msg,             \* "" or " (reached limit)"
    \* --- grab_subtitles_for_file, suspended at a download_item call
    subtitle_items,       \* result of find_subtitles_for_nfo
    lang_pos,             \* position in self.languages of the pending download
    downloaded_languages,
    \* --- observation of each asset's processing
    calls,                \* calls[a]: capability calls made for asset a, in order
    ret,                  \* ret[a]: how grab_subtitles_for_file ended for a
    \* --- direct calls of the matcher and the metric
    m_pc, m_a1, m_a2, m_score, m_fn1, m_fns2, m_ix,
    \* --- observation of the catalog
    answer                \* answer[a]: what the catalog answered to a's search

grabVars == <<languages, get_all_langs, remaining_downloads, fs, nfo_has_imdbid,
              has_media, pc, i, results, stop_msg, subtitle_items, lang_pos,
              downloaded_languages, calls, ret>>
matchVars == <<m_pc, m_a1, m_a2, m_score, m_fn1, m_fns2, m_ix>>
vars == <<grabVars, matchVars, answer>>

\* ------------------------------------------------------------ helpers
SeqToSet(s) == {s[k] : k \in DOMAIN s}

SeqsUpTo(S, n) == UNION {[1..k -> S] : k \in 0..n}

\* mutant: the position of the last element equal to x
ListIndex_Last(s, x) == (CHOOSE k \in DOMAIN s : s[k] = x /\ \A j \in (k + 1)..Len(s) : s[j] # x) - 1

\* list.index(x): 0-based position of the first element equal to x
ListIndex(s, x) == (CHOOSE k \in DOMAIN s : s[k] = x /\ \A j \in 1..(k - 1) : s[j] # x) - 1

\* max(list) of a non-empty list
ListMax(s) == CHOOSE m \in SeqToSet(s) : \A k \in DOMAIN s : s[k] <= m

\* ============================================================ filename_matcher.py
Keys == <<"quality", "codec", "resolution", "encoder", "audio">>
KeySet == SeqToSet(Keys)
AttrValues == {"x", "y"}

\* an attribute dict: a function from the keys the parser found to their values
AttrMaps == UNION {[D -> AttrValues] : D \in SUBSET KeySet}

Quarters(n) == 4 * n

metric_weights ==
    [quality |-> Quarters(5), codec |-> 6, resolution |-> Quarters(1),
     encoder |-> Quarters(1), audio |-> 2]

thresh == Quarters(2)

\* mutant: a missing key counted at full weight
MissingKeyContribution_Full(w) == w

\* w * self._missing_key_factor, with the factor .5
MissingKeyContribution(w) == w \div 2

\* one pass of the loop body of AttribMatchMetric.__call__
KeyContribution(k, a1, a2) ==
    IF k \in DOMAIN a1 /\ k \in DOMAIN a2
    THEN metric_weights[k] * (IF a1[k] = a2[k] THEN 1 ELSE 0)
    ELSE MissingKeyContribution(metric_weights[k])

RECURSIVE MetricLoop(_, _, _, _)
MetricLoop(n, score, a1, a2) ==
    IF n > Len(Keys) THEN score
    ELSE MetricLoop(n + 1, score + KeyContribution(Keys[n], a1, a2), a1, a2)

AttribMatchMetric(a1, a2) == MetricLoop(1, 0, a1, a2)

\* File names used as inputs, with what the release-name parser yields for each.
AllKeys(v) == [k \in KeySet |-> v]
FileNames == {"full", "bare", "close", "far", "edge", "weak", "mid"}

parse_fname(fn) ==
    CASE fn = "full"  -> AllKeys("x")
      [] fn = "bare"  -> [k \in {} |-> "x"]
      [] fn = "close" -> AllKeys("x")
      [] fn = "far"   -> [k \in {"quality", "codec", "resolution"} |-> "y"]
      [] fn = "edge"  -> [k \in {"quality", "codec", "encoder", "audio"} |->
                              IF k = "codec" THEN "x" ELSE "y"]
      [] fn = "weak"  -> [k \in KeySet |-> IF k = "codec" THEN "x" ELSE "y"]
      [] fn = "mid"   -> [k \in KeySet |-> IF k = "quality" THEN "x" ELSE "y"]

calc_match_scores(fn1, fns2) ==
    [j \in 1..Len(fns2) |-> AttribMatchMetric(parse_fname(fn1), parse_fname(fns2[j]))]

\* mutant: a maximum equal to the threshold rejected
BestMatchResult_Strict(scores, max_score) ==
    IF max_score <= thresh THEN <<>> ELSE <<ListIndex(scores, max_score)>>

\* None is <<>>, an index ix is <<ix>>
BestMatchResult(scores, max_score) ==
    IF max_score < thresh THEN <<>> ELSE <<ListIndex(scores, max_score)>>

\* defined for a non-empty fns2; max() of an empty list raises ValueError
get_best_match_ix(fn1, fns2) ==
    LET scores == calc_match_scores(fn1, fns2)
    IN  BestMatchResult(scores, ListMax(scores))

get_best_match_ix_raises(fns2) == Len(fns2) = 0

\* ============================================================ subs_grabber.py
Langs == {"en", "es"}          \* codes a user may ask for
Assets == 1..NumAssets
Statuses == {"failed", "downloaded", "notfound", "exist"}

supports_multi_cd == FALSE

\* the nfo file name of asset a as the matcher sees it
nfo_file(a) == IF a % 2 = 1 THEN "full" ELSE "bare"

\* a catalog entry: attributes.language, len(attributes.files) and
\* attributes.files[0].file_name ("<None>" for a null file name)
NoFileName == "<None>"
Candidate(lang, n, fn) == [language |-> lang, nfiles |-> n, file_name |-> fn]

\* entries a catalog answer is built from: a well and a badly matching one for
\* each desired language, one in a language nobody asked for, one without a
\* file name and one split over two files
Candidates ==
    {Candidate(l, 1, fn) : l \in Langs, fn \in {"close", "far"}}
    \cup {Candidate("fr", 1, "close"), Candidate("en", 1, NoFileName),
          Candidate("en", 2, "close")}

SearchResponses == SeqsUpTo(Candidates, MaxResults)

QuotaValues ==
    {[kind |-> "absent", n |-> 0], [kind |-> "none", n |-> 0]}
    \cup [kind : {"int"}, n : 0..MaxQuota]

HasDownloadsRaises(q) == q.kind = "absent"

\* mutant: the counter is not consulted
has_downloads_Stale(q) == TRUE

has_downloads(q) == q.kind = "none" \/ q.n > 0

find_existing_subtitles_for_file(a) == fs[a]

\* mutant: every desired language is asked for, existing or not
MissingLangs_All(a) == languages

MissingLangs(a) ==
    SelectSeq(languages, LAMBDA lang : lang \notin find_existing_subtitles_for_file(a))

\* mutant: the number of files is not looked at
IsSingleNamed_AnyCount(r) == r.file_name # NoFileName

IsSingleNamed(r) == r.nfiles = 1 /\ r.file_name # NoFileName

search(response) ==
    IF ~supports_multi_cd THEN SelectSeq(response, IsSingleNamed) ELSE response

PickResult(search_results, lang_results, result_ix) == search_results[result_ix + 1]

RECURSIVE FindLoop(_, _, _, _, _)
FindLoop(nfo, search_results, langs, n, result) ==
    IF n > Len(langs) THEN result
    ELSE LET lang == langs[n]
             lang_results == SelectSeq(search_results, LAMBDA r : r.language = lang)
             subtitle_fnames == [j \in 1..Len(lang_results) |-> lang_results[j].file_name]
         IN  IF Len(subtitle_fnames) = 0
             THEN FindLoop(nfo, search_results, langs, n + 1, result)
             ELSE LET result_ix == get_best_match_ix(nfo, subtitle_fnames)
                  IN  IF result_ix # <<>>
                      THEN FindLoop(nfo, search_results, langs, n + 1,
                               Append(result, PickResult(search_results, lang_results, result_ix[1])))
                      ELSE FindLoop(nfo, search_results, langs, n + 1, result)

\* after the imdbid was read and the catalog answered with response
find_subtitles_for_nfo(nfo, langs, response) ==
    LET search_results == search(response)
    IN  IF Len(search_results) = 0 THEN <<>>
        ELSE FindLoop(nfo, search_results, langs, 1, <<>>)

\* priority-ordered lists of distinct codes
LanguageLists == {s \in SeqsUpTo(Langs, Cardinality(Langs)) :
                     Len(s) > 0 /\ \A j, k \in DOMAIN s : j # k => s[j] # s[k]}

NfoNames == {"full", "bare"}

\* every <<nfo name, missing languages, list find_subtitles_for_nfo returns>>,
\* over all catalog answers (a constant, evaluated once)
FoundItems ==
    {<<nfo, langs, find_subtitles_for_nfo(nfo, langs, response)>> :
        nfo \in NfoNames, langs \in LanguageLists, response \in SearchResponses}

SubtitleLanguages(items) == [j \in 1..Len(items) |-> items[j].language]

\* first position >= n of self.languages whose language is in subtitle_languages,
\* Len(languages) + 1 when the loop of line 126 runs out
NextDownloadPos(items, n) ==
    LET S == {k \in n..Len(languages) : languages[k] \in SeqToSet(SubtitleLanguages(items))}
    IN  IF S = {} THEN Len(languages) + 1
        ELSE CHOOSE k \in S : \A j \in S : k <= j

\* mutant: "downloaded" whatever was verified
FinalStatus_Always(downloaded) == "downloaded"

\* lines 139-142
FinalStatus(downloaded) == IF Len(downloaded) > 0 THEN "downloaded" ELSE "failed"


\* what the remote service leaves of the counter after one served download
QuotaAfterDownload(q) ==
    IF q.kind = "int" /\ q.n > 0 THEN [q EXCEPT !.n = q.n - 1] ELSE q

\* the remote service serves a download only while the counter is not used up
ServerAllowsDownload(q) == q.kind # "int" \/ q.n > 0

\* ------------------------------------------------------------ the batch loop
Outcome(status, info) == [status |-> status, info |-> info]

Unprocessed == Outcome("unprocessed", <<>>)

\* the answer of a search is kept only where SpecFind observes it
Unobserved == [seen |-> FALSE, list |-> <<>>]

Observed(response) == [seen |-> TRUE, list |-> response]

NoAnswers == [a \in Assets |-> Unobserved]

MatchIdle ==
    /\ m_pc = "idle"
    /\ m_a1 = <<>> /\ m_a2 = <<>> /\ m_score = 0
    /\ m_fn1 = "full" /\ m_fns2 = <<>> /\ m_ix = <<>>

GrabInit ==
    /\ languages \in LanguageLists
    /\ get_all_langs \in BOOLEAN
    /\ remaining_downloads \in QuotaValues
    /\ fs \in [Assets -> SUBSET Langs]
    /\ nfo_has_imdbid \in [Assets -> BOOLEAN]
    /\ has_media \in [Assets -> BOOLEAN]
    \* an nfo with no media file and no subtitle is skipped before anything is read
    /\ \A a \in Assets : ~has_media[a] => (fs[a] = {} /\ nfo_has_imdbid[a])
    /\ pc = "loop"
    /\ i = 1
    /\ results = [s \in Statuses |-> <<>>]
    /\ stop_msg = ""
    /\ subtitle_items = <<>>
    /\ lang_pos = 0
    /\ downloaded_languages = <<>>
    /\ calls = [a \in Assets |-> <<>>]
    /\ ret = [a \in Assets |-> Unprocessed]

Init == GrabInit /\ MatchIdle /\ answer = NoAnswers

\* len(glob(base + ".*")) > 1: something besides the nfo carries the base name
IsAssociated(a) == has_media[a] \/ fs[a] # {}

AtLoop == pc = "loop" /\ i <= NumAssets /\ IsAssociated(i)

\* mutant: the outcome is not appended to the tally
RecordAndContinue_Dropped(status, outcome) ==
    /\ results' = results
    /\ ret' = [ret EXCEPT ![i] = outcome]
    /\ i' = i + 1
    /\ pc' = "loop"
    /\ subtitle_items' = <<>>
    /\ lang_pos' = 0
    /\ downloaded_languages' = <<>>

\* results[status].append(nfo_file), and on to the next nfo file
RecordAndContinue(status, outcome) ==
    /\ results' = [results EXCEPT ![status] = Append(@, i)]
    /\ ret' = [ret EXCEPT ![i] = outcome]
    /\ i' = i + 1
    /\ pc' = "loop"
    /\ subtitle_items' = <<>>
    /\ lang_pos' = 0
    /\ downloaded_languages' = <<>>

\* mutant: an exception ends the batch
CaughtException_Abort(kind) ==
    /\ results' = [results EXCEPT !["failed"] = Append(@, i)]
    /\ ret' = [ret EXCEPT ![i] = Outcome(kind, <<>>)]
    /\ i' = i
    /\ pc' = "done"
    /\ subtitle_items' = <<>>
    /\ lang_pos' = 0
    /\ downloaded_languages' = <<>>

\* except Exception: status, info = "failed", "Error"
CaughtException(kind) == RecordAndContinue("failed", Outcome(kind, <<>>))

Returned(status, info) == RecordAndContinue(status, Outcome(status, info))

PriorityGate(missing_langs) == languages[1] \notin SeqToSet(missing_langs) /\ ~get_all_langs

PastGates(a) ==
    /\ ~HasDownloadsRaises(remaining_downloads)
    /\ has_downloads(remaining_downloads)
    /\ Len(MissingLangs(a)) # 0
    /\ ~PriorityGate(MissingLangs(a))

SearchCall(a) == [op |-> "search", arg |-> MissingLangs(a)]
DownloadCall(lang) == [op |-> "download", arg |-> <<lang>>]

\* lines 167-169: an nfo file not associated with a media file
SkipUnassociated ==
    /\ pc = "loop" /\ i <= NumAssets /\ ~IsAssociated(i)
    /\ i' = i + 1
    /\ ret' = [ret EXCEPT ![i] = Outcome("skipped", <<>>)]
    /\ UNCHANGED <<languages, get_all_langs, remaining_downloads, fs, nfo_has_imdbid,
                   has_media, pc, results, stop_msg, subtitle_items, lang_pos,
                   downloaded_languages, calls>>
    /\ UNCHANGED <<matchVars, answer>>

\* line 102 with a client object that has no remaining_downloads attribute
GrabAttributeError ==
    /\ AtLoop
    /\ HasDownloadsRaises(remaining_downloads)
    /\ CaughtException("AttributeError")
    /\ UNCHANGED <<languages, get_all_langs, remaining_downloads, fs, nfo_has_imdbid,
                   has_media, stop_msg, calls>>
    /\ UNCHANGED <<matchVars, answer>>

\* mutant: the loop goes on to the next nfo file after "dllimit"
BreakLoop_Continue == pc' = "loop" /\ i' = i + 1

\* line 176: break
BreakLoop == pc' = "done" /\ i' = i

\* lines 102-103, then 173-176
GrabDlLimit ==
    /\ AtLoop
    /\ ~HasDownloadsRaises(remaining_downloads)
    /\ ~has_downloads(remaining_downloads)
    /\ ret' = [ret EXCEPT ![i] = Outcome("dllimit", <<>>)]
    /\ stop_msg' = " (reached limit)"
    /\ BreakLoop
    /\ UNCHANGED <<languages, get_all_langs, remaining_downloads, fs, nfo_has_imdbid,
                   has_media, results, subtitle_items, lang_pos,
                   downloaded_languages, calls>>
    /\ UNCHANGED <<matchVars, answer>>

\* mutant: the existence and priority tests come before the quota test
ReturnsExist_BeforeQuota(a) ==
    Len(MissingLangs(a)) = 0 \/ PriorityGate(MissingLangs(a))

\* lines 102-114: "exist" is returned only once the quota test of line 102 passed
ReturnsExist(a) ==
    /\ ~HasDownloadsRaises(remaining_downloads)
    /\ has_downloads(remaining_downloads)
    /\ Len(MissingLangs(a)) = 0 \/ PriorityGate(MissingLangs(a))

\* lines 105-114
GrabExist ==
    /\ AtLoop
    /\ ReturnsExist(i)
    /\ Returned("exist", <<>>)
    /\ UNCHANGED <<languages, get_all_langs, remaining_downloads, fs, nfo_has_imdbid,
                   has_media, stop_msg, calls>>
    /\ UNCHANGED <<matchVars, answer>>

\* line 61: _read_nfo raises NfoTypeError; lines 177-178: continue
GrabNfoTypeError ==
    /\ AtLoop
    /\ PastGates(i)
    /\ ~nfo_has_imdbid[i]
    /\ ret' = [ret EXCEPT ![i] = Outcome("NfoTypeError", <<>>)]
    /\ i' = i + 1
    /\ UNCHANGED <<languages, get_all_langs, remaining_downloads, fs, nfo_has_imdbid,
                   has_media, pc, results, stop_msg, subtitle_items, lang_pos,
                   downloaded_languages, calls>>
    /\ UNCHANGED <<matchVars, answer>>

\* line 77: the catalog request fails (raise_for_status, transport, decoding)
GrabSearchRaises ==
    /\ AtLoop
    /\ PastGates(i)
    /\ nfo_has_imdbid[i]
    /\ calls' = [calls EXCEPT ![i] = Append(@, SearchCall(i))]
    /\ CaughtException("Exception")
    /\ UNCHANGED <<languages, get_all_langs, remaining_downloads, fs, nfo_has_imdbid,
                   has_media, stop_msg>>
    /\ UNCHANGED <<matchVars, answer>>

\* mutant: an empty list of matches is not told apart
NoneFound_Never(items) == FALSE

\* line 121: if len(subtitle_items) == 0
NoneFound(items) == Len(items) = 0

\* lines 119-130 once find_subtitles_for_nfo returned items, up to the first
\* download_item call
AfterFind(items) ==
    LET pos == NextDownloadPos(items, 1)
    IN  /\ calls' = [calls EXCEPT ![i] = Append(@, SearchCall(i))]
        /\ IF NoneFound(items) THEN Returned("notfound", <<>>)
           ELSE IF pos > Len(languages) THEN Returned(FinalStatus(<<>>), <<>>)
           ELSE /\ pc' = "download"
                /\ subtitle_items' = items
                /\ lang_pos' = pos
                /\ UNCHANGED <<i, results, ret, downloaded_languages>>

\* lines 119-130, up to the first download_item call
GrabSearch ==
    /\ AtLoop
    /\ PastGates(i)
    /\ nfo_has_imdbid[i]
    /\ \E found \in FoundItems :
         /\ found[1] = nfo_file(i)
         /\ found[2] = MissingLangs(i)
         /\ AfterFind(found[3])
    /\ UNCHANGED <<languages, get_all_langs, remaining_downloads, fs, nfo_has_imdbid,
                   has_media, stop_msg>>
    /\ UNCHANGED <<matchVars, answer>>

\* the same lines, with the catalog's answer kept
GrabSearchObserved ==
    /\ AtLoop
    /\ PastGates(i)
    /\ nfo_has_imdbid[i]
    /\ \E response \in SearchResponses :
         /\ AfterFind(find_subtitles_for_nfo(nfo_file(i), MissingLangs(i), response))
         /\ answer' = [answer EXCEPT ![i] = Observed(response)]
    /\ UNCHANGED <<languages, get_all_langs, remaining_downloads, fs, nfo_has_imdbid,
                   has_media, stop_msg>>
    /\ UNCHANGED matchVars

PendingLanguage == languages[lang_pos]

PendingFilesItem ==
    subtitle_items[ListIndex(SubtitleLanguages(subtitle_items), PendingLanguage) + 1]

IsMultiCd(item) == item.nfiles > 1 /\ ~supports_multi_cd

\* line 133: download_item raises (or line 132 raises before it)
DownloadRaises ==
    /\ pc = "download"
    /\ IF IsMultiCd(PendingFilesItem)
       THEN /\ CaughtException("ValueError")
            /\ UNCHANGED calls
       ELSE /\ calls' = [calls EXCEPT ![i] = Append(@, DownloadCall(PendingLanguage))]
            /\ CaughtException("Exception")
    /\ UNCHANGED <<languages, get_all_langs, remaining_downloads, fs, nfo_has_imdbid,
                   has_media, stop_msg>>
    /\ UNCHANGED <<matchVars, answer>>

\* line 134: os.path.isfile(dst_stfile)
IsFile(files, a, lang) == lang \in files[a]

\* mutant: no break after the first verified download
BreaksAfterSuccess_Never == FALSE

\* line 136: the break after a verified download
BreaksAfterSuccess == ~get_all_langs

\* lines 133-142: download_item returns, having written dst_stfile
DownloadItem ==
    /\ pc = "download"
    /\ ~IsMultiCd(PendingFilesItem)
    /\ ServerAllowsDownload(remaining_downloads)
    /\ LET language == PendingLanguage
           written == [fs EXCEPT ![i] = @ \cup {language}]
           verified == IsFile(written, i, language)
           downloaded == IF verified THEN Append(downloaded_languages, language)
                         ELSE downloaded_languages
           pos == IF verified /\ BreaksAfterSuccess THEN Len(languages) + 1
                  ELSE NextDownloadPos(subtitle_items, lang_pos + 1)
       IN  /\ calls' = [calls EXCEPT ![i] = Append(@, DownloadCall(language))]
           /\ fs' = written
           /\ remaining_downloads' = QuotaAfterDownload(remaining_downloads)
           /\ IF pos > Len(languages)
              THEN Returned(FinalStatus(downloaded), downloaded)
              ELSE /\ lang_pos' = pos
                   /\ downloaded_languages' = downloaded
                   /\ UNCHANGED <<pc, i, results, ret, subtitle_items>>
    /\ UNCHANGED <<languages, get_all_langs, nfo_has_imdbid, has_media, stop_msg>>
    /\ UNCHANGED <<matchVars, answer>>

\* lines 197-204: the loop ran out of nfo files
Finish ==
    /\ pc = "loop" /\ i > NumAssets
    /\ pc' = "done"
    /\ UNCHANGED <<languages, get_all_langs, remaining_downloads, fs, nfo_has_imdbid,
                   has_media, i, results, stop_msg, subtitle_items, lang_pos,
                   downloaded_languages, calls, ret>>
    /\ UNCHANGED <<matchVars, answer>>

GrabNext ==
    \/ SkipUnassociated
    \/ GrabAttributeError
    \/ GrabDlLimit
    \/ GrabExist
    \/ GrabNfoTypeError
    \/ GrabSearchRaises
    \/ GrabSearch
    \/ DownloadRaises
    \/ DownloadItem
    \/ Finish

Next == GrabNext

Spec == Init /\ [][Next]_vars


\* ============================================================ one asset, observed
\* The same program run on a library in which a single nfo file is associated
\* with a media file, the answer of the catalog to its search being kept.
FindInit ==
    /\ GrabInit
    /\ MatchIdle
    /\ answer = NoAnswers
    /\ Cardinality({a \in Assets : IsAssociated(a)}) = 1

FindNext ==
    \/ SkipUnassociated
    \/ GrabAttributeError
    \/ GrabDlLimit
    \/ GrabExist
    \/ GrabNfoTypeError
    \/ GrabSearchRaises
    \/ GrabSearchObserved
    \/ DownloadRaises
    \/ DownloadItem
    \/ Finish

SpecFind == FindInit /\ [][FindNext]_vars


\* ============================================================ direct calls
\* The metric and the matcher called on their own, on inputs drawn from
\* bounded sets.
GrabIdle ==
    /\ languages = <<"en">>
    /\ get_all_langs = FALSE
    /\ remaining_downloads = [kind |-> "none", n |-> 0]
    /\ fs = [a \in Assets |-> {}]
    /\ nfo_has_imdbid = [a \in Assets |-> TRUE]
    /\ has_media = [a \in Assets |-> TRUE]
    /\ pc = "done"
    /\ i = 1
    /\ results = [s \in Statuses |-> <<>>]
    /\ stop_msg = ""
    /\ subtitle_items = <<>>
    /\ lang_pos = 0
    /\ downloaded_languages = <<>>
    /\ calls = [a \in Assets |-> <<>>]
    /\ ret = [a \in Assets |-> Unprocessed]

MetricInit ==
    /\ m_pc = "metric"
    /\ m_a1 \in AttrMaps
    /\ m_a2 \in AttrMaps
    /\ m_score = 0
    /\ m_fn1 = "full" /\ m_fns2 = <<>> /\ m_ix = <<>>

MatcherInit ==
    /\ m_pc = "match"
    /\ m_fn1 \in FileNames
    /\ m_fns2 \in SeqsUpTo(FileNames, MaxCands)
    /\ m_a1 = <<>> /\ m_a2 = <<>> /\ m_score = 0 /\ m_ix = <<>>

MatchInit == GrabIdle /\ (MetricInit \/ MatcherInit) /\ answer = NoAnswers

\* AttribMatchMetric.__call__(a1, a2)
CallMetric ==
    /\ m_pc = "metric"
    /\ m_score' = AttribMatchMetric(m_a1, m_a2)
    /\ m_pc' = "metric_done"
    /\ UNCHANGED <<m_a1, m_a2, m_fn1, m_fns2, m_ix>>
    /\ UNCHANGED <<grabVars, answer>>

\* FilenameMatcher.get_best_match_ix(fn1, fns2), fns2 not empty
CallBestMatch ==
    /\ m_pc = "match"
    /\ ~get_best_match_ix_raises(m_fns2)
    /\ m_ix' = get_best_match_ix(m_fn1, m_fns2)
    /\ m_pc' = "match_done"
    /\ UNCHANGED <<m_a1, m_a2, m_score, m_fn1, m_fns2>>
    /\ UNCHANGED <<grabVars, answer>>

\* mutant: max(scores, default=0), so that an empty list ends in "no match"
MaxOfNothing_Default ==
    /\ m_pc' = "match_done"
    /\ m_ix' = <<>>

\* line 28: max() of an empty list raises, nothing is returned
MaxOfNothing ==
    /\ m_pc' = "match_raised"
    /\ m_ix' = m_ix

\* FilenameMatcher.get_best_match_ix(fn1, []): max() raises ValueError
CallBestMatchRaises ==
    /\ m_pc = "match"
    /\ get_best_match_ix_raises(m_fns2)
    /\ MaxOfNothing
    /\ UNCHANGED <<m_a1, m_a2, m_score, m_fn1, m_fns2>>
    /\ UNCHANGED <<grabVars, answer>>

MatchNext ==
    \/ CallMetric
    \/ CallBestMatch
    \/ CallBestMatchRaises

SpecMatch == MatchInit /\ [][MatchNext]_vars


\* ============================================================ properties

\* ---- C10 ----------------------------------------------------------------
\* The contribution the specification gives for one key of weight w (in
\* quarters): w when both maps hold the key with equal values, 0 when both
\* hold it with different values, w/2 when either map lacks it.
StatedContribution(k, w, a1, a2) ==
    IF k \notin DOMAIN a1 \/ k \notin DOMAIN a2 THEN w \div 2
    ELSE IF a1[k] = a2[k] THEN w ELSE 0

StatedScore(a1, a2) ==
    StatedContribution("quality", 20, a1, a2) + StatedContribution("codec", 6, a1, a2)
    + StatedContribution("resolution", 4, a1, a2) + StatedContribution("encoder", 4, a1, a2)
    + StatedContribution("audio", 2, a1, a2)

\* C10: the score the metric returns is the sum over the five keys (quality 5,
\* codec 1.5, resolution 1, encoder 1, audio 0.5) of weight / 0 / weight*0.5 as
\* stated; score(a, a) is 9 (36 quarters) when every key is present; and
\* making one present-but-different key equal strictly raises the score.
C10_MetricScore ==
    m_pc = "metric_done" =>
        /\ m_score = StatedScore(m_a1, m_a2)
        /\ (m_a1 = m_a2 /\ DOMAIN m_a1 = KeySet) => m_score = 36
        /\ \A k \in DOMAIN m_a1 \cap DOMAIN m_a2 :
             m_a1[k] # m_a2[k] =>
                 AttribMatchMetric(m_a1, [m_a2 EXCEPT ![k] = m_a1[k]]) > m_score

\* the metric was called on maps that hold an equal key, a different key and
\* a key only one of them has
C10_Witness ==
    /\ m_pc = "metric_done"
    /\ DOMAIN m_a1 = KeySet
    /\ DOMAIN m_a2 = KeySet \ {"audio"}
    /\ m_a1["quality"] # m_a2["quality"]
    /\ m_a1["codec"] = m_a2["codec"]
    /\ m_score = 6 + 4 + 4 + 1

\* ---- C9 -----------------------------------------------------------------
\* C9: for a non-empty candidate list get_best_match_ix returns None exactly
\* when every score is strictly below the threshold 2 (8 quarters), and
\* otherwise the lowest index whose score is the maximum.
C9_BestMatch ==
    m_pc = "match_done" =>
        LET scores == calc_match_scores(m_fn1, m_fns2)
        IN  /\ m_ix = <<>> <=> \A j \in DOMAIN scores : scores[j] < 8
            /\ m_ix # <<>> =>
                 /\ Len(m_ix) = 1
                 /\ m_ix[1] + 1 \in DOMAIN scores
                 /\ \A j \in DOMAIN scores : scores[j] <= scores[m_ix[1] + 1]
                 /\ \A j \in 1..m_ix[1] : scores[j] < scores[m_ix[1] + 1]

\* a tie at a maximum equal to the threshold, behind a lower score
C9_Witness ==
    /\ m_pc = "match_done"
    /\ m_fn1 = "full"
    /\ m_fns2 = <<"weak", "edge", "edge">>
    /\ m_ix = <<1>>


\* ------------------------------------------------------------ observations
\* grab_subtitles_for_file was called for a and has ended
Called(a) == ret[a].status \notin {"unprocessed", "skipped"}

IsDownloadCall(c) == c.op = "download"
IsSearchCall(c) == c.op = "search"

\* languages of the download_item calls made for a, in call order
DownloadLangsOf(log) ==
    LET d == SelectSeq(log, IsDownloadCall)
    IN  [j \in 1..Len(d) |-> d[j].arg[1]]

DownloadLangs(a) == DownloadLangsOf(calls[a])

\* missing_langs as computed when a was processed: the argument of the search
\* call if there was one, and otherwise what the untouched files still give
MissingAtEntry(a) == IF calls[a] # <<>> THEN calls[a][1].arg ELSE MissingLangs(a)

\* how often a appears in the tally
Occurrences(a) ==
    Cardinality({p \in Statuses \X (1..NumAssets) :
                    p[2] \in DOMAIN results[p[1]] /\ results[p[1]][p[2]] = a})

InTally(a, status) == a \in SeqToSet(results[status])

PositionIn(seq, x) == CHOOSE k \in DOMAIN seq : seq[k] = x

\* ---- C1 -----------------------------------------------------------------
\* C1: an asset whose desired languages all exist locally ends in "exist",
\* with no search call and no download call.
C1_AllExistReturnsExist ==
    \A a \in Assets :
        (Called(a) /\ Len(MissingAtEntry(a)) = 0) =>
            (ret[a].status = "exist" /\ calls[a] = <<>>)

\* ---- C2 -----------------------------------------------------------------
\* the asset went on from the gates to the catalog lookup (reading the
\* identifier, then the search call)
ProceededToSearch(a) ==
    ret[a].status = "NfoTypeError" \/ (calls[a] # <<>> /\ IsSearchCall(calls[a][1]))

\* C2: with some desired language missing, the asset ends in "exist" with no
\* search exactly when get_all_langs is off and the first desired language
\* exists; otherwise it proceeds to search.
C2_PriorityGate ==
    \A a \in Assets :
        (Called(a) /\ Len(MissingAtEntry(a)) > 0) =>
            IF ~get_all_langs /\ languages[1] \notin SeqToSet(MissingAtEntry(a))
            THEN ret[a].status = "exist" /\ calls[a] = <<>>
            ELSE ProceededToSearch(a)

\* ---- C3 -----------------------------------------------------------------
\* C3: an asset reached with a counter that is defined and 0 ends in
\* "dllimit" with no search and no download; an asset reached with no counter
\* value is handled as with an unlimited quota: its processing neither ends in
\* "dllimit" nor fails at the quota check.
C3_QuotaCheck ==
    [][AtLoop =>
          IF remaining_downloads.kind = "int" /\ remaining_downloads.n = 0
          THEN ret'[i].status = "dllimit" /\ calls' = calls
          ELSE remaining_downloads.kind # "int" =>
                   ret'[i].status \notin {"dllimit", "AttributeError"}]_vars

\* ---- C4 -----------------------------------------------------------------
\* C4: once an asset yields "dllimit" the loop has ended at that asset and is
\* marked as ended early; no later asset has a call, an outcome or a tally
\* entry.
C4_BatchEarlyStop ==
    \A a \in Assets :
        ret[a].status = "dllimit" =>
            /\ pc = "done" /\ i = a
            /\ stop_msg = " (reached limit)"
            /\ calls[a] = <<>>
            /\ \A b \in Assets :
                 b > a => (ret[b] = Unprocessed /\ calls[b] = <<>> /\ Occurrences(b) = 0)

\* the first asset downloaded the last allowed subtitle and the second one,
\* which lacks a subtitle, met the used-up counter
C4_Witness ==
    /\ ret[1].status = "downloaded"
    /\ ret[2].status = "dllimit"
    /\ has_media[2] /\ MissingLangs(2) # <<>>
    /\ pc = "done"

\* ---- C5 -----------------------------------------------------------------
RaisedKinds == {"AttributeError", "Exception", "ValueError"}

C7_DownloadedOnlyVerified ==
    \A a \in Assets :
        /\ ret[a].status = "downloaded" =>
             /\ ret[a].info # <<>>
             /\ ret[a].info = DownloadLangs(a)
             /\ \A k \in DOMAIN ret[a].info : IsFile(fs, a, ret[a].info[k])
        /\ ret[a].status = "failed" =>
             /\ ret[a].info = <<>>
             /\ DownloadLangs(a) = <<>>
             /\ calls[a] # <<>>

\* one asset got both languages, the other had a match in no desired language
C7_Witness ==
    /\ ret[1].status = "downloaded" /\ Len(ret[1].info) = 2
    /\ ret[2].status = "failed"

\* ---- C8 -----------------------------------------------------------------
MatchedLanguages(items) == SeqToSet(languages) \cap SeqToSet(SubtitleLanguages(items))

\* C8: when the download step returns "downloaded", its download calls were
\* made in the priority order of self.languages; with get_all_langs off there
\* was exactly one call, for the highest-priority matched language, and it is
\* the one listed; with get_all_langs on there was a call for every matched
\* language.
C8_DownloadPriority ==
    [][(pc = "download" /\ ret'[i].status = "downloaded") =>
          LET dls == DownloadLangsOf(calls'[i])
              matched == MatchedLanguages(subtitle_items)
          IN  /\ \A j, k \in DOMAIN dls :
                   j < k => PositionIn(languages, dls[j]) < PositionIn(languages, dls[k])
              /\ ret'[i].info = dls
              /\ IF ~get_all_langs
                 THEN /\ Len(dls) = 1
                      /\ dls[1] \in matched
                      /\ \A l \in matched :
                           PositionIn(languages, dls[1]) <= PositionIn(languages, l)
                 ELSE SeqToSet(dls) = matched]_vars

\* both languages were missing and searched for, and with get_all_langs off a
\* single download, of the first language, ended the asset
C8_Witness ==
    /\ ~get_all_langs
    /\ languages = <<"es", "en">>
    /\ ret[1].status = "downloaded"
    /\ ret[1].info = <<"es">>
    /\ calls[1][1].arg = <<"es", "en">>
    /\ "en" \notin fs[1]

\* ---- C11 ----------------------------------------------------------------
\* C11: get_best_match_ix called with an empty list of candidate file names
\* ends by raising; it does not return, neither an index nor "no match"
\* (m_ix keeps the value it had before the call).
C11_EmptyCandidatesRaise ==
    /\ (m_fns2 = <<>> /\ m_pc \in {"match_done", "match_raised"}) =>
          (m_pc = "match_raised" /\ m_ix = <<>>)
    /\ m_pc = "match_done" => Len(m_fns2) > 0
    /\ m_pc = "match_raised" => m_fns2 = <<>>

\* the call on an empty list was made, for a reference name with every attribute
C11_Witness ==
    /\ m_pc = "match_raised"
    /\ m_fn1 = "full"
    /\ m_fns2 = <<>>

\* ---- the catalog's answer, as the claims speak of it ------------------------
\* the languages asset a's search asked for
Requested(a) == SeqToSet(calls[a][1].arg)

\* the candidates of the answer that have exactly one file entry, with a name
Filtered(a) ==
    SelectSeq(answer[a].list, LAMBDA r : r.nfiles = 1 /\ r.file_name # NoFileName)

LangCandidates(a, l) == {r \in SeqToSet(Filtered(a)) : r.language = l}

ScoreOf(a, r) == AttribMatchMetric(parse_fname(nfo_file(a)), parse_fname(r.file_name))

\* language l has a candidate whose file name reaches the threshold
Acceptable(a, l) == \E r \in LangCandidates(a, l) : ScoreOf(a, r) >= thresh

BestOf(a, l) ==
    {r \in LangCandidates(a, l) : \A q \in LangCandidates(a, l) : ScoreOf(a, r) >= ScoreOf(a, q)}

\* what find_subtitles_for_nfo returned on the observed answer
KeptItems(a) == find_subtitles_for_nfo(nfo_file(a), calls[a][1].arg, answer[a].list)

\* ---- C12 ----------------------------------------------------------------
\* C12: for every requested language with an acceptable match,
\* find_subtitles_for_nfo keeps one candidate of that language, a best-scoring
\* one among that language's candidates; it keeps nothing for a language with
\* no acceptable match; so every kept candidate is in a requested language and
\* no two kept candidates share a language.
C12_MatchStep ==
    \A a \in Assets :
        answer[a].seen =>
            LET items == KeptItems(a)
            IN  /\ \A l \in Requested(a) :
                     IF Acceptable(a, l)
                     THEN \E k \in DOMAIN items :
                              /\ items[k] \in BestOf(a, l)
                              /\ \A j \in DOMAIN items : items[j].language = l => j = k
                     ELSE \A k \in DOMAIN items : items[k].language # l
                /\ \A k \in DOMAIN items : items[k].language \in Requested(a)

\* ---- C13 ----------------------------------------------------------------
CounterIsZero == remaining_downloads.kind = "int" /\ remaining_downloads.n = 0

CounterDefined == remaining_downloads.kind # "absent"

Satisfied(a) == Len(MissingLangs(a)) = 0 \/ PriorityGate(MissingLangs(a))

SearchStarted(a) ==
    /\ Len(calls'[a]) = Len(calls[a]) + 1
    /\ IsSearchCall(calls'[a][Len(calls'[a])])

\* C14: the counter is read at the start of every asset and is not written by
\* the batch loop (it only changes in a step in which a download was served):
\* an asset reached with a counter of zero yields "dllimit" with no call made,
\* and no search is started while the counter is zero.
C14_CounterReadAfresh ==
    [][/\ (AtLoop /\ CounterIsZero) => (ret'[i].status = "dllimit" /\ calls' = calls)
       /\ \A a \in Assets : SearchStarted(a) => ~CounterIsZero
       /\ remaining_downloads' # remaining_downloads =>
             (pc = "download" /\ IsDownloadCall(calls'[i][Len(calls'[i])]))]_vars

\* the counter started at one, the first asset's download drove it to zero and
\* the second asset, which has a missing language, ended at the quota test
C14_Witness ==
    /\ ret[1].status = "downloaded"
    /\ CounterIsZero
    /\ ret[2].status = "dllimit"
    /\ calls[2] = <<>>
    /\ Len(MissingLangs(2)) > 0
    /\ ~PriorityGate(MissingLangs(2))

\* ---- C15 ----------------------------------------------------------------
\* the filtered answer is empty, or no requested language has an acceptable match
NothingToFetch(a) ==
    Filtered(a) = <<>> \/ \A l \in Requested(a) : ~Acceptable(a, l)

\* C15: once the catalog answered asset a's search, a ends as "notfound"
\* exactly when the filtered answer is empty or no requested language has an
\* acceptable match, and then no download call is made for a; "notfound" is
\* never the outcome of an asset whose search was not answered.
C15_NotFound ==
    \A a \in Assets :
        /\ answer[a].seen =>
              LET nothing == NothingToFetch(a)
              IN  /\ ret[a].status = "notfound" <=> nothing
                  /\ nothing => DownloadLangs(a) = <<>>
        /\ ret[a].status = "notfound" => answer[a].seen

\* "notfound" although the filter let candidates through (none scored high
\* enough), the answer also holding candidates the filter removed
C15_Witness ==
    \E a \in Assets :
        /\ ret[a].status = "notfound"
        /\ Filtered(a) # <<>>
        /\ Len(Filtered(a)) < Len(answer[a].list)
        /\ \E l \in Requested(a) : LangCandidates(a, l) # {}

\* ---- C16 ----------------------------------------------------------------
\* C16: with multi-file support off, no candidate with more than one file
\* entry or without a file name gets past the search filter, so no asset ends
\* in the ValueError of the multi-CD branch and no item waiting to be
\* downloaded is a multi-file one.
C16_MultiCdUnreachable ==
    /\ \A a \in Assets : ret[a].status # "ValueError"
    /\ \A a \in Assets :
          answer[a].seen =>
             LET search_results == search(answer[a].list)
             IN  \A k \in DOMAIN search_results :
                     /\ search_results[k].nfiles = 1
                     /\ search_results[k].file_name # NoFileName
    /\ pc = "download" =>
          \A k \in DOMAIN subtitle_items :
              subtitle_items[k].nfiles = 1 /\ subtitle_items[k].file_name # NoFileName

\* a download is pending for an asset whose answer held a two-file candidate
\* and a candidate without a file name
C16_Witness ==
    /\ pc = "download"
    /\ answer[i].seen
    /\ \E k \in DOMAIN answer[i].list : answer[i].list[k].nfiles > 1
    /\ \E k \in DOMAIN answer[i].list : answer[i].list[k].file_name = NoFileName

\* ---- C17 ----------------------------------------------------------------
\* the answer to a's search holds only candidates in the languages asked for
OnlyRequested(a) ==
    \A k \in DOMAIN answer[a].list : answer[a].list[k].language \in Requested(a)

DownloadStarted(a) ==
    /\ Len(calls'[a]) = Len(calls[a]) + 1
    /\ IsDownloadCall(calls'[a][Len(calls'[a])])

\* C17: if the catalog answered a's search with candidates in requested
\* languages only, every download call for a is for a language that was asked
\* for and that has no subtitle file yet, and the call leaves the subtitle
\* files that exist in place.
C17_NoOverwrite ==
    [][\A a \in Assets :
          (DownloadStarted(a) /\ answer[a].seen /\ OnlyRequested(a)) =>
              LET lang == calls'[a][Len(calls'[a])].arg[1]
              IN  /\ lang \in Requested(a)
                  /\ lang \notin fs[a]
                  /\ fs[a] \subseteq fs'[a]
                  /\ fs'[a] \subseteq fs[a] \cup {lang}]_vars

\* an asset that had a subtitle in one language got the other one downloaded,
\* from an answer of several candidates, all in the language asked for
C17_Witness ==
    \E a \in Assets :
        /\ ret[a].status = "downloaded"
        /\ answer[a].seen
        /\ OnlyRequested(a)
        /\ Len(answer[a].list) >= 2
        /\ \E l \in fs[a] : l \notin SeqToSet(DownloadLangs(a))

\* ---- C18 ----------------------------------------------------------------
HasNoKey(fn) == DOMAIN parse_fname(fn) \cap KeySet = {}

\* C18: when the reference file name has none of the five attributes, every
\* candidate scores 4.5 (18 quarters), which is at least the threshold, and
\* get_best_match_ix returns index 0 for every non-empty list of candidates.
C18_NoKeyReference ==
    (m_pc = "match_done" /\ HasNoKey(m_fn1)) =>
        /\ \A k \in DOMAIN m_fns2 :
               AttribMatchMetric(parse_fname(m_fn1), parse_fname(m_fns2[k])) = 18
        /\ 18 >= thresh
        /\ m_ix = <<0>>

\* a reference name with no attribute matched against three different names
C18_Witness ==
    /\ m_pc = "match_done"
    /\ HasNoKey(m_fn1)
    /\ m_fns2 = <<"far", "close", "edge">>
    /\ m_ix = <<0>>

====
